---- MODULE Spec2Model ----
(***************************************************************************)
(* A model of src/src/main.rs (rust_book_chapter_10): the Shape trait with *)
(* its Triangle and Square implementations, get_area / get_area_long,      *)
(* return_area, Pair<T> with cmp_display, largest_int, and the run of      *)
(* main.                                                                   *)
(*                                                                         *)
(* Spec     applies the library operations to values drawn from bounded    *)
(*          sets: one value is bound, then methods are called on it.       *)
(* MainSpec is the run of fn main, statement by statement.                 *)
(***************************************************************************)
EXTENDS Integers, Sequences, FiniteSets, TLC

VARIABLES overflow_checks, pc, self, ctor, args, op, ret, stdout, ncalls,
          line, stack, locals, calls

vars == <<overflow_checks, pc, self, ctor, args, op, ret, stdout, ncalls,
          line, stack, locals, calls>>

lib_vars == <<pc, self, ctor, args, op, ret, ncalls>>
main_vars == <<line, stack, locals, calls>>

----------------------------------------------------------------------------
(* Bounds of the model *)

\* isize is pointer-sized in Rust; the model keeps two's-complement
\* arithmetic at a reduced width, so the extreme values are enumerable.
IsizeBits == 12

\* Dimensions and pair members are drawn from -MaxDim..MaxDim, the literals
\* main uses, and the two extreme isize values.
MaxDim == 3

\* Method calls made on one bound value.
MaxCalls == 3

----------------------------------------------------------------------------
(* Machine integers *)

IsizeMax == 2^(IsizeBits - 1) - 1
IsizeMin == -(2^(IsizeBits - 1))

InIsize(n) == IsizeMin <= n /\ n <= IsizeMax

\* Two's-complement wrap-around of a mathematical integer into isize.
WrapIsize(n) == ((n - IsizeMin) % (2^IsizeBits)) + IsizeMin

Unit == "()"
Ok(v) == [kind |-> "ok", val |-> v]
Panic(msg) == [kind |-> "panic", val |-> msg]

IsPanic(r) == r.kind = "panic"

\* `a * b` on isize. With overflow checks (the dev profile) an overflowing
\* product panics; without them (the release profile) it wraps.
Mul(a, b, checks) ==
    IF InIsize(a * b) THEN Ok(a * b)
    ELSE IF checks THEN Panic("attempt to multiply with overflow")
    ELSE Ok(WrapIsize(a * b))

\* `a / b` on isize for a positive literal divisor: the quotient is
\* truncated toward zero.
Div(a, b) == IF a >= 0 THEN a \div b ELSE -((-a) \div b)

\* Display for the integer types: the decimal rendering.
Display(n) == ToString(n)

----------------------------------------------------------------------------
(* The Shape trait and its implementations *)

Triangle(b, h) == [type |-> "Triangle", base |-> b, height |-> h]
Square(h) == [type |-> "Square", height |-> h]

\* impl Shape for Triangle: fn area(&self) -> isize
Triangle_area(t, checks) ==
    LET m == Mul(t.height, t.base, checks)
    IN  IF IsPanic(m) THEN m ELSE Ok(Div(m.val, 2))

\* impl Shape for Square: fn area(&self) -> isize
Square_area(s, checks) == Mul(s.height, s.height, checks)

\* Shape::default, the provided method: the lines it prints.
Shape_default_provided(s) == <<"default called">>

\* impl Shape for Triangle: fn default(&self), the override.
Triangle_default(t) == <<"Triangle default called.">>

\* Method resolution of shape.area() for the implementing types.
Shape_area(s, checks) ==
    IF s.type = "Triangle" THEN Triangle_area(s, checks)
    ELSE Square_area(s, checks)

\* Method resolution of shape.default(): Triangle overrides, Square
\* inherits the provided method.
Shape_default_no_override(s) == Shape_default_provided(s)

Shape_default(s) ==
    IF s.type = "Triangle" THEN Triangle_default(s)
    ELSE Shape_default_provided(s)

\* The effect of a call: the receiver after the call, the lines printed,
\* and the value returned (or the panic).
Effect(s, out, r) == [self |-> s, out |-> out, ret |-> r]

\* println!("Area is {}", shape.area()) behind a shape reference.
PrintArea(shape, checks) ==
    LET a == Shape_area(shape, checks)
    IN  IF IsPanic(a) THEN Effect(shape, <<>>, a)
        ELSE Effect(shape, <<"Area is " \o Display(a.val)>>, Ok(Unit))

\* pub fn get_area(shape: &impl Shape)
get_area(shape, checks) == PrintArea(shape, checks)

\* pub fn get_area_long<T: Shape>(shape: &T)
get_area_long_square_only(shape, checks) ==
    LET a == Square_area(shape, checks)
    IN  IF IsPanic(a) THEN Effect(shape, <<>>, a)
        ELSE Effect(shape, <<"Area is " \o Display(a.val)>>, Ok(Unit))

get_area_long(shape, checks) == PrintArea(shape, checks)

\* pub fn return_area() -> impl Shape
return_area_triangle == Triangle(1, 4)

return_area == Square(15)

----------------------------------------------------------------------------
(* Pair<T> *)

\* Pair::new(x, y)
Pair_new_swapped(x, y) == [type |-> "Pair", x |-> y, y |-> x]

Pair_new(x, y) == [type |-> "Pair", x |-> x, y |-> y]

\* Pair::cmp_display(&self)
cmp_display_strict(p) ==
    IF p.x > p.y
    THEN Effect(p, <<"The largest member is x = " \o Display(p.x)>>, Ok(Unit))
    ELSE Effect(p, <<"The largest member is y = " \o Display(p.y)>>, Ok(Unit))

cmp_display(p) ==
    IF p.x >= p.y
    THEN Effect(p, <<"The largest member is x = " \o Display(p.x)>>, Ok(Unit))
    ELSE Effect(p, <<"The largest member is y = " \o Display(p.y)>>, Ok(Unit))

----------------------------------------------------------------------------
(* largest_int *)

\* Two i32 locals and the references to them.
Ints(a, b) == [type |-> "Ints", int1 |-> a, int2 |-> b]
RefTo(name) == [ref |-> name]
Deref(env, r) == env[r.ref]

\* fn largest_int<'a>(x: &'a i32, y: &'a i32) -> &'a i32
largest_int_ge(env, x, y) ==
    IF Deref(env, x) >= Deref(env, y) THEN x ELSE y

largest_int(env, x, y) ==
    IF Deref(env, x) > Deref(env, y) THEN x ELSE y

----------------------------------------------------------------------------
(* Spec: the operations applied to values drawn from bounded sets *)

\* Dimensions of the shapes: a small range around zero, the literals of
\* the source (5, 9, 10, 15), and the extreme isize values.
Dims == (-MaxDim..MaxDim) \cup {5, 9, 10, 15} \cup {IsizeMin, IsizeMax}

\* Members of a Pair and the i32 locals handed to largest_int.
Members == -MaxDim..MaxDim

ShapeTypes == {"Triangle", "Square"}
NoValue == [type |-> "none"]

\* The run of main is not started under Spec.
MainIdle ==
    /\ line = 0
    /\ stack = <<>>
    /\ locals = <<>>
    /\ calls = {}

LibInit ==
    /\ overflow_checks \in BOOLEAN
    /\ pc = "start"
    /\ self = NoValue
    /\ ctor = "none"
    /\ args = <<>>
    /\ op = "none"
    /\ ret = Ok(Unit)
    /\ stdout = <<>>
    /\ ncalls = 0
    /\ MainIdle

\* A value is constructed and bound to a local.
Bind(value, how, a) ==
    /\ pc' = "live"
    /\ self' = value
    /\ ctor' = how
    /\ args' = a
    /\ UNCHANGED <<overflow_checks, op, ret, stdout, ncalls, main_vars>>

\* A call on the bound value takes effect: the receiver, what is printed,
\* what is returned. A panic ends the run.
Apply(name, e) ==
    /\ pc = "live"
    /\ ncalls < MaxCalls
    /\ op' = name
    /\ self' = e.self
    /\ stdout' = stdout \o e.out
    /\ ret' = e.ret
    /\ ncalls' = ncalls + 1
    /\ pc' = IF IsPanic(e.ret) THEN "panicked" ELSE "live"
    /\ UNCHANGED <<overflow_checks, ctor, args, main_vars>>

\* let t = Triangle{base: b, height: h};
LetTriangle ==
    /\ pc = "start"
    /\ \E b \in Dims, h \in Dims : Bind(Triangle(b, h), "Triangle", <<b, h>>)

\* let s = Square{height: h};
LetSquare ==
    /\ pc = "start"
    /\ \E h \in Dims : Bind(Square(h), "Square", <<h>>)

\* let s = return_area();
CallReturnArea ==
    /\ pc = "start"
    /\ Bind(return_area, "return_area", <<>>)

\* let p = Pair::new(x, y);
CallPairNew ==
    /\ pc = "start"
    /\ \E x \in Members, y \in Members : Bind(Pair_new(x, y), "Pair::new", <<x, y>>)

\* let int1 = a; let int2 = b;
LetInts ==
    /\ pc = "start"
    /\ \E a \in Members, b \in Members : Bind(Ints(a, b), "ints", <<a, b>>)

\* shape.area()
CallArea ==
    /\ self.type \in ShapeTypes
    /\ Apply("area", Effect(self, <<>>, Shape_area(self, overflow_checks)))

\* shape.default()
CallDefault ==
    /\ self.type \in ShapeTypes
    /\ Apply("default", Effect(self, Shape_default(self), Ok(Unit)))

\* get_area(&shape)
CallGetArea ==
    /\ self.type \in ShapeTypes
    /\ Apply("get_area", get_area(self, overflow_checks))

\* get_area_long(&shape)
CallGetAreaLong ==
    /\ self.type \in ShapeTypes
    /\ Apply("get_area_long", get_area_long(self, overflow_checks))

\* pair.cmp_display()
CallCmpDisplay ==
    /\ self.type = "Pair"
    /\ Apply("cmp_display", cmp_display(self))

\* largest_int(&int1, &int2)
CallLargestInt ==
    /\ self.type = "Ints"
    /\ Apply("largest_int",
             Effect(self, <<>>, Ok(largest_int(self, RefTo("int1"), RefTo("int2")))))

Next ==
    \/ LetTriangle
    \/ LetSquare
    \/ CallReturnArea
    \/ CallPairNew
    \/ LetInts
    \/ CallArea
    \/ CallDefault
    \/ CallGetArea
    \/ CallGetAreaLong
    \/ CallCmpDisplay
    \/ CallLargestInt

Spec == LibInit /\ [][Next]_vars

----------------------------------------------------------------------------
(* MainSpec: the run of fn main.  `line` is the source line of the next    *)
(* statement, `stack` the callers' frames, `locals` the bindings of the    *)
(* running function, `self` and `args` the callee's receiver and           *)
(* arguments, `ret` the value a call returned, `calls` the functions       *)
(* called and the struct types constructed so far.                         *)

NoLocals == <<>>

\* The statements of the three functions main calls, in source order; the
\* last line of each is its closing brace.
generic_data_types_body == <<23, 24, 33, 37, 42, 51, 56, 66, 68, 98>>

traits_body_without_generic_calls == <<138, 139, 141, 142, 143, 144, 180, 192, 219>>

traits_body == <<138, 139, 141, 142, 143, 144, 161, 162, 169, 170, 180, 192, 219>>

lifetimes_body == <<239, 240, 242, 243, 264, 265, 267, 286, 307, 309, 310, 325,
                    330, 331, 333, 341>>

\* The statement after line l in a function body.
NextIn(body, l) ==
    LET i == CHOOSE k \in 1..Len(body) : body[k] = l
    IN  body[i + 1]

\* f64 literals keep their text; {:?} and {} print it.
F64(text) == [f64 |-> text]
DebugF64(f) == f.f64
DebugStr(str) == "\"" \o str \o "\""

\* Display for bool.
DisplayBool(b) == IF b THEN "true" ELSE "false"

MainInit ==
    /\ overflow_checks \in BOOLEAN
    /\ line = 4
    /\ pc = "run"
    /\ stack = <<>>
    /\ locals = NoLocals
    /\ calls = {}
    /\ self = NoValue
    /\ args = <<>>
    /\ ret = Ok(Unit)
    /\ stdout = <<>>
    /\ ctor = "none"
    /\ op = "none"
    /\ ncalls = 0

Stmt(l) == line = l /\ pc = "run"
Back(l) == line = l /\ pc = "returned"

\* A statement completes and control moves to line `next`: `out` is
\* printed, `loc` are the function's bindings, `made` the types constructed.
Advance(next, out, loc, made) ==
    /\ line' = next
    /\ pc' = "run"
    /\ stdout' = stdout \o out
    /\ locals' = loc
    /\ calls' = calls \cup made
    /\ UNCHANGED <<overflow_checks, self, args, ret, stack, ctor, op, ncalls>>

\* A call: the caller's frame is pushed with the place to continue at.
CallTo(fname, entry, recv, a, contline, contpc) ==
    /\ stack' = <<[line |-> contline, pc |-> contpc, locals |-> locals]>> \o stack
    /\ line' = entry
    /\ pc' = "run"
    /\ locals' = NoLocals
    /\ self' = recv
    /\ args' = a
    /\ calls' = calls \cup {fname}
    /\ UNCHANGED <<overflow_checks, ret, stdout, ctor, op, ncalls>>

\* A return: `out` is printed by the callee's last statement, `made` are
\* the types it constructed, the caller's frame is popped and continues
\* with `v`.  A panic unwinds nothing: the process aborts.
ReturnWith(v, out, made) ==
    /\ stack # <<>>
    /\ ret' = v
    /\ stdout' = stdout \o out
    /\ calls' = calls \cup made
    /\ IF IsPanic(v)
       THEN /\ pc' = "panicked"
            /\ UNCHANGED <<line, locals, stack>>
       ELSE /\ line' = Head(stack).line
            /\ pc' = Head(stack).pc
            /\ locals' = Head(stack).locals
            /\ stack' = Tail(stack)
    /\ UNCHANGED <<overflow_checks, self, args, ctor, op, ncalls>>

\* The implementation a method call resolves to, by the receiver's type.
AreaEntry(recv) == IF recv.type = "Triangle" THEN 124 ELSE 134
AreaName(recv) == IF recv.type = "Triangle" THEN "Triangle::area" ELSE "Square::area"
DefaultEntry(recv) == IF recv.type = "Triangle" THEN 128 ELSE 109
DefaultName(recv) == IF recv.type = "Triangle" THEN "Triangle::default" ELSE "Shape::default"

\* fn main()
main_fn ==
    \/ /\ Stmt(4)
       /\ CallTo("generic_data_types", 23, NoValue, <<>>, 5, "run")
    \/ /\ Stmt(5)
       /\ CallTo("traits_defining_shared_behavior", 138, NoValue, <<>>, 6, "run")
    \/ /\ Stmt(6)
       /\ CallTo("validating_references_with_lifetimes", 239, NoValue, <<>>, 7, "run")

\* fn smallest<T: PartialOrd>(one: T, two: T)
smallest_fn ==
    /\ Stmt(16)
    /\ ReturnWith(Ok(Unit),
                  IF args[1] < args[2] THEN <<"less">> ELSE <<"greater than or equal">>,
                  {})

\* fn generic_data_types()
generic_data_types_fn ==
    LET next == NextIn(generic_data_types_body, line)
    IN  \/ /\ Stmt(23)
           /\ CallTo("smallest", 16, NoValue, <<1, 2>>, next, "run")
        \/ /\ Stmt(24)     \* 'a' and 'b' by their code points
           /\ CallTo("smallest", 16, NoValue, <<97, 98>>, next, "run")
        \/ /\ Stmt(33)
           /\ Advance(next, <<>>,
                      ("rect_one" :> [height |-> 1, width |-> 2]) @@ locals,
                      {"Rectangle"})
        \/ /\ Stmt(37)
           /\ Advance(next, <<>>,
                      ("rect_two" :> [height |-> F64("1.0"), width |-> F64("2.0")]) @@ locals,
                      {"Rectangle"})
        \/ /\ Stmt(42)
           /\ Advance(next,
                      <<"rect_one: Rectangle { height: " \o Display(locals.rect_one.height)
                        \o ", width: " \o Display(locals.rect_one.width)
                        \o " } rect_two: Rectangle { height: "
                        \o DebugF64(locals.rect_two.height)
                        \o ", width: " \o DebugF64(locals.rect_two.width) \o " }">>,
                      locals, {})
        \/ /\ Stmt(51)
           /\ Advance(next, <<>>,
                      ("triangle" :> [base |-> 1, height |-> F64("2.0")]) @@ locals,
                      {"Triangle<T, U>"})
        \/ /\ Stmt(56)
           /\ Advance(next,
                      <<"triangle: Triangle { base: " \o Display(locals.triangle.base)
                        \o ", height: " \o DebugF64(locals.triangle.height) \o " }">>,
                      locals, {})
        \/ /\ Stmt(66)
           /\ Advance(next, <<>>,
                      ("color" :> [variant |-> "Yellow", field |-> "Or are they RGB?"]) @@ locals,
                      {"PrimaryColors"})
        \/ /\ Stmt(68)
           /\ Advance(next,
                      <<"color: " \o locals.color.variant
                        \o "(" \o DebugStr(locals.color.field) \o ")">>,
                      locals, {})
        \/ /\ Stmt(98)
           /\ ReturnWith(Ok(Unit), <<>>, {})

\* impl Shape for Triangle: area, entered at line 124
Triangle_area_fn ==
    /\ Stmt(124)
    /\ ReturnWith(Triangle_area(self, overflow_checks), <<>>, {})

\* impl Shape for Triangle: default, entered at line 128
Triangle_default_fn ==
    /\ Stmt(128)
    /\ ReturnWith(Ok(Unit), Triangle_default(self), {})

\* impl Shape for Square: area, entered at line 134
Square_area_fn ==
    /\ Stmt(134)
    /\ ReturnWith(Square_area(self, overflow_checks), <<>>, {})

\* trait Shape: the provided default, entered at line 109
Shape_default_fn ==
    /\ Stmt(109)
    /\ ReturnWith(Ok(Unit), Shape_default_provided(self), {})

\* pub fn get_area(shape: &impl Shape), line 158
get_area_fn ==
    \/ /\ Stmt(158)
       /\ CallTo(AreaName(args[1]), AreaEntry(args[1]), args[1], <<>>, 158, "returned")
    \/ /\ Back(158)
       /\ ReturnWith(Ok(Unit), <<"Area is " \o Display(ret.val)>>, {})

\* pub fn get_area_long<T: Shape>(shape: &T), line 166
get_area_long_fn ==
    \/ /\ Stmt(166)
       /\ CallTo(AreaName(args[1]), AreaEntry(args[1]), args[1], <<>>, 166, "returned")
    \/ /\ Back(166)
       /\ ReturnWith(Ok(Unit), <<"Area is " \o Display(ret.val)>>, {})

\* pub fn return_area() -> impl Shape, line 177
return_area_fn ==
    /\ Stmt(177)
    /\ ReturnWith(Ok(return_area), <<>>, {return_area.type})

\* fn traits_defining_shared_behavior()
traits_defining_shared_behavior_fn ==
    LET next == NextIn(traits_body, line)
    IN  \/ /\ Stmt(138)
           /\ Advance(next, <<>>, ("my_triangle" :> Triangle(5, 10)) @@ locals, {"Triangle"})
        \/ /\ Stmt(139)
           /\ Advance(next, <<>>, ("my_square" :> Square(10)) @@ locals, {"Square"})
        \/ /\ Stmt(141)
           /\ CallTo(AreaName(locals.my_triangle), AreaEntry(locals.my_triangle),
                     locals.my_triangle, <<>>, 141, "returned")
        \/ /\ Back(141)
           /\ Advance(next, <<"triangle area: " \o Display(ret.val)>>, locals, {})
        \/ /\ Stmt(142)
           /\ CallTo(DefaultName(locals.my_triangle), DefaultEntry(locals.my_triangle),
                     locals.my_triangle, <<>>, next, "run")
        \/ /\ Stmt(143)
           /\ CallTo(AreaName(locals.my_square), AreaEntry(locals.my_square),
                     locals.my_square, <<>>, 143, "returned")
        \/ /\ Back(143)
           /\ Advance(next, <<"square area: " \o Display(ret.val)>>, locals, {})
        \/ /\ Stmt(144)
           /\ CallTo(DefaultName(locals.my_square), DefaultEntry(locals.my_square),
                     locals.my_square, <<>>, next, "run")
        \/ /\ Stmt(161)
           /\ CallTo("get_area", 158, NoValue, <<locals.my_triangle>>, next, "run")
        \/ /\ Stmt(162)
           /\ CallTo("get_area", 158, NoValue, <<locals.my_square>>, next, "run")
        \/ /\ Stmt(169)
           /\ CallTo("get_area_long", 166, NoValue, <<locals.my_triangle>>, next, "run")
        \/ /\ Stmt(170)
           /\ CallTo("get_area_long", 166, NoValue, <<locals.my_square>>, next, "run")
        \/ /\ (Stmt(180) \/ Stmt(192))
           /\ CallTo("return_area", 177, NoValue, <<>>, line, "returned")
        \/ /\ (Back(180) \/ Back(192))
           /\ CallTo(DefaultName(ret.val), DefaultEntry(ret.val), ret.val, <<>>, next, "run")
        \/ /\ Stmt(219)
           /\ ReturnWith(Ok(Unit), <<>>, {})

\* fn largest_int<'a>(x: &'a i32, y: &'a i32) -> &'a i32, line 232; the
\* references point into the caller's frame.
largest_int_fn ==
    /\ Stmt(232)
    /\ ReturnWith(Ok(largest_int(Head(stack).locals, args[1], args[2])), <<>>, {})

\* fn single_param(x: &i32) -> &i32, line 283
single_param_fn ==
    /\ Stmt(283)
    /\ ReturnWith(Ok(args[1]), <<>>, {})

\* World::winner(&self, happiness: &i32) -> &bool, line 299
winner_fn ==
    /\ Stmt(299)
    /\ ReturnWith(Ok(IF Deref(Head(stack).locals, args[1]) > 5
                     THEN self.happy ELSE self.sad), <<>>, {})

\* MyStuff::sad(&self) -> i32, line 321
sad_fn ==
    /\ Stmt(321)
    /\ ReturnWith(Ok(3), <<>>, {})

\* fn validating_references_with_lifetimes()
validating_references_with_lifetimes_fn ==
    LET next == NextIn(lifetimes_body, line)
    IN  \/ /\ Stmt(239)
           /\ Advance(next, <<>>, ("int1" :> 1) @@ locals, {})
        \/ /\ Stmt(240)
           /\ Advance(next, <<>>, ("int2" :> 2) @@ locals, {})
        \/ /\ Stmt(242)
           /\ CallTo("largest_int", 232, NoValue, <<RefTo("int1"), RefTo("int2")>>,
                     242, "returned")
        \/ /\ Back(242)
           /\ Advance(next, <<>>, ("res" :> ret.val) @@ locals, {})
        \/ /\ Stmt(243)
           /\ Advance(next, <<"result: " \o Display(Deref(locals, locals.res))>>, locals, {})
        \/ /\ Stmt(264)
           /\ Advance(next, <<>>, ("my_str" :> "the string") @@ locals, {"String"})
        \/ /\ Stmt(265)
           /\ Advance(next, <<>>, ("stuff" :> [my_str |-> RefTo("my_str")]) @@ locals,
                      {"MyStuff"})
        \/ /\ Stmt(267)
           /\ Advance(next, <<"stuff string: " \o Deref(locals, locals.stuff.my_str)>>,
                      locals, {})
        \/ /\ Stmt(286)
           /\ CallTo("single_param", 283, NoValue, <<RefTo("int1")>>, 286, "returned")
        \/ /\ Back(286)
           /\ Advance(next, <<"single_param: " \o Display(Deref(locals, ret.val))>>,
                      locals, {})
        \/ /\ Stmt(307)
           /\ Advance(next, <<>>, ("world" :> [happy |-> TRUE, sad |-> FALSE]) @@ locals,
                      {"World"})
        \/ /\ Stmt(309)
           /\ Advance(next, <<>>, ("happiness" :> 10) @@ locals, {})
        \/ /\ Stmt(310)
           /\ CallTo("World::winner", 299, locals.world, <<RefTo("happiness")>>,
                     310, "returned")
        \/ /\ Back(310)
           /\ Advance(next, <<"Happy? " \o DisplayBool(ret.val)>>, locals, {})
        \/ /\ Stmt(325)
           /\ CallTo("MyStuff::sad", 321, locals.stuff, <<>>, 325, "returned")
        \/ /\ Back(325)
           /\ Advance(next, <<"sad: " \o Display(ret.val)>>, locals, {})
        \/ /\ Stmt(330)
           /\ Advance(next, <<>>, ("hello_world" :> "Hello world!") @@ locals, {})
        \/ /\ Stmt(331)
           /\ Advance(next, <<>>, ("static_int" :> 123) @@ locals, {})
        \/ /\ Stmt(333)
           /\ Advance(next,
                      <<"hello_world: " \o locals.hello_world
                        \o " static_int: " \o Display(locals.static_int)>>,
                      locals, {})
        \/ /\ Stmt(341)
           /\ ReturnWith(Ok(Unit), <<>>, {})

MainNext ==
    \/ main_fn
    \/ generic_data_types_fn
    \/ smallest_fn
    \/ traits_defining_shared_behavior_fn
    \/ Triangle_area_fn
    \/ Triangle_default_fn
    \/ Square_area_fn
    \/ Shape_default_fn
    \/ get_area_fn
    \/ get_area_long_fn
    \/ return_area_fn
    \/ validating_references_with_lifetimes_fn
    \/ largest_int_fn
    \/ single_param_fn
    \/ winner_fn
    \/ sad_fn

MainSpec == MainInit /\ [][MainNext]_vars

----------------------------------------------------------------------------
(* Properties of the operations, checked under Spec *)

LastLine == stdout[Len(stdout)]
Abs(n) == IF n >= 0 THEN n ELSE -n
Max(a, b) == IF a >= b THEN a ELSE b

ReportsX(v) == "The largest member is x = " \o ToString(v)
ReportsY(v) == "The largest member is y = " \o ToString(v)

\* q is p / 2 truncated toward zero: q is within a half of p / 2 and never
\* further from zero than p / 2.
IsTruncatedHalf(q, p) == Abs(p - 2 * q) <= 1 /\ Abs(2 * q) <= Abs(p)

\* C1: cmp_display reports x as the largest member whenever x >= y (a tie
\* reports x, never y) and reports y exactly when x < y.
C1_CmpDisplayReportsLargest ==
    op = "cmp_display" =>
        /\ (self.x > self.y => LastLine = ReportsX(self.x))
        /\ (self.x = self.y => LastLine = ReportsX(self.x) /\ LastLine # ReportsY(self.y))
        /\ (self.x < self.y => LastLine = ReportsY(self.y))
        /\ (LastLine = ReportsY(self.y) <=> self.x < self.y)

\* C1 witness: cmp_display has run on a tie and reported x.
C1_Witness ==
    /\ op = "cmp_display"
    /\ self.x = self.y
    /\ LastLine = ReportsX(self.x)

\* C2: for every Triangle{base, height}, area returns the mathematical
\* (base * height) / 2 truncated toward zero.
C2_TriangleAreaIsTruncatedHalfProduct ==
    (op = "area" /\ self.type = "Triangle") =>
        /\ ret.kind = "ok"
        /\ IsTruncatedHalf(ret.val, self.base * self.height)

\* Supporting C2: whenever base * height is representable in isize, area
\* returns the truncated half product; area(5, 10) = 25, area(5, 9) = 22.
TriangleAreaTruncatesWhenRepresentable ==
    (op = "area" /\ self.type = "Triangle" /\ InIsize(self.base * self.height)) =>
        /\ ret.kind = "ok"
        /\ IsTruncatedHalf(ret.val, self.base * self.height)
        /\ (self = Triangle(5, 10) => ret.val = 25)
        /\ (self = Triangle(5, 9) => ret.val = 22)

\* C3: for every Square with side s, area returns s * s, and the result is
\* never negative when s * s is representable.
C3_SquareAreaIsSideSquared ==
    (op = "area" /\ self.type = "Square") =>
        /\ ret = Ok(self.height * self.height)
        /\ (InIsize(self.height * self.height) => ret.val >= 0)

\* Supporting C3: whenever side * side is representable in isize, area
\* returns it, and it is not negative; area(10) = 100, area(15) = 225.
SquareAreaWhenRepresentable ==
    (op = "area" /\ self.type = "Square" /\ InIsize(self.height * self.height)) =>
        /\ ret = Ok(self.height * self.height)
        /\ ret.val >= 0
        /\ (self = Square(10) => ret.val = 100)
        /\ (self = Square(15) => ret.val = 225)

\* C4: for every shape value, get_area and get_area_long report the same
\* area, the one shape.area() returns when called directly (and end the
\* same way when area() does not return).
C4_DispatchEquivalence ==
    self.type \in ShapeTypes =>
        LET a == Shape_area(self, overflow_checks)
        IN  /\ get_area(self, overflow_checks) = get_area_long(self, overflow_checks)
            /\ op \in {"get_area", "get_area_long"} =>
                  /\ IsPanic(ret) <=> IsPanic(a)
                  /\ IsPanic(ret) => ret = a
                  /\ ~IsPanic(ret) => LastLine = "Area is " \o ToString(a.val)

\* C4 witness: get_area and get_area_long have both run on Triangle{5, 9}
\* and each printed the area 22.
C4_Witness ==
    /\ self = Triangle(5, 9)
    /\ op = "get_area_long"
    /\ stdout = <<"Area is 22", "Area is 22">>

\* C5: default on Square (no override) prints the provided method's text;
\* default on Triangle prints Triangle's own text and never the provided one.
C5_DefaultOverride ==
    op = "default" =>
        /\ (self.type = "Square" => LastLine = "default called")
        /\ (self.type = "Triangle" =>
                LastLine = "Triangle default called." /\ LastLine # "default called")

\* C5 witness: default has run on a Triangle and printed the override's text.
C5_Witness ==
    /\ op = "default"
    /\ self.type = "Triangle"
    /\ LastLine = "Triangle default called."

\* C6: the shape operations are total: for every pair of machine-integer
\* dimensions no call of area, get_area or get_area_long panics.
C6_ShapeOperationsTotal ==
    /\ pc # "panicked"
    /\ (op \in {"area", "get_area", "get_area_long"} => ~IsPanic(ret))

\* C8: return_area always yields Square{height: 15}: its area is 225, its
\* default report is the provided one, and it is never a Triangle.
C8_ReturnAreaIsSquare15 ==
    ctor = "return_area" =>
        /\ self = Square(15)
        /\ self.type # "Triangle"
        /\ (op = "area" => ret = Ok(225))
        /\ (op = "default" => LastLine = "default called")
        /\ (op \in {"get_area", "get_area_long"} => LastLine = "Area is 225")

\* C8 witness: area has been called on the value return_area returned.
C8_Witness ==
    /\ ctor = "return_area"
    /\ op = "area"
    /\ ret = Ok(225)

\* C9: Pair::new(x, y) stores x in x and y in y; no call of cmp_display,
\* area, default, get_area or get_area_long changes a field of its
\* receiver, and a call repeated on the same value returns and prints the
\* same.
C9_ImmutableAfterConstruction ==
    [][ /\ (pc = "start" /\ ctor' = "Pair::new") =>
               self' = [type |-> "Pair", x |-> args'[1], y |-> args'[2]]
        /\ (pc = "start" /\ ctor' = "Triangle") =>
               self' = [type |-> "Triangle", base |-> args'[1], height |-> args'[2]]
        /\ (pc = "start" /\ ctor' = "Square") =>
               self' = [type |-> "Square", height |-> args'[1]]
        /\ pc = "live" => self' = self
        /\ (pc = "live" /\ op' = op) =>
               LET k == Len(stdout') - Len(stdout)
               IN  /\ ret' = ret
                   /\ k <= Len(stdout)
                   /\ SubSeq(stdout', Len(stdout) + 1, Len(stdout'))
                        = SubSeq(stdout, Len(stdout) - k + 1, Len(stdout))
      ]_vars

\* C9 witness: cmp_display has run twice on a pair of distinct members,
\* which still holds the constructor's arguments in order.
C9_Witness ==
    /\ ctor = "Pair::new"
    /\ op = "cmp_display"
    /\ ncalls = 2
    /\ args[1] # args[2]
    /\ self = [type |-> "Pair", x |-> args[1], y |-> args[2]]
    /\ stdout[1] = stdout[2]

\* C10: largest_int returns one of its two arguments, whose value is the
\* maximum; it returns the first only when x > y, so a tie returns the
\* second.
C10_LargestIntReturnsMaxSecondOnTie ==
    op = "largest_int" =>
        LET x == RefTo("int1")
            y == RefTo("int2")
        IN  /\ ret.val \in {x, y}
            /\ self[ret.val.ref] = Max(self.int1, self.int2)
            /\ (ret.val = x <=> self.int1 > self.int2)
            /\ (self.int1 = self.int2 => ret.val = y)

\* C10 witness: largest_int has run on a tie and returned its second argument.
C10_Witness ==
    /\ op = "largest_int"
    /\ self.int1 = self.int2
    /\ ret.val = RefTo("int2")

----------------------------------------------------------------------------
(* Properties of the run of main, checked under MainSpec *)

MainReturned == line = 7 /\ pc = "run" /\ stack = <<>>

ShapeOperations ==
    {"Triangle::area", "Square::area", "Triangle::default", "Shape::default",
     "get_area", "get_area_long", "return_area"}

\* What traits_defining_shared_behavior prints.
ShapeReport ==
    <<"triangle area: 25", "Triangle default called.", "square area: 100",
      "default called", "Area is 25", "Area is 100", "Area is 25", "Area is 100",
      "default called", "default called">>

\* C7 as stated: when main returns, a value of each shape variant and at
\* least one Pair have been constructed, and the shape operations and the
\* Pair's cmp_display have been invoked and their results printed.
C7_MainConstructsShapesAndPair ==
    MainReturned =>
        /\ {"Triangle", "Square"} \subseteq calls
        /\ ShapeOperations \subseteq calls
        /\ ("Pair" \in calls \/ "Pair::new" \in calls)
        /\ "Pair::cmp_display" \in calls

\* C7 amended: the run never panics and goes on until main returns; by
\* then a Triangle and a Square have been constructed, area, default,
\* get_area, get_area_long and return_area have been invoked and their
\* results printed; no Pair is ever constructed and cmp_display is never
\* called.
C7_MainExercisesShapesButNoPair ==
    /\ pc # "panicked"
    /\ (~MainReturned => ENABLED MainNext)
    /\ calls \cap {"Pair", "Pair::new", "Pair::cmp_display"} = {}
    /\ \A i \in 1..Len(stdout) : stdout[i] \notin {ReportsX(v) : v \in Members}
                                                  \cup {ReportsY(v) : v \in Members}
    /\ MainReturned =>
          /\ {"Triangle", "Square"} \subseteq calls
          /\ ShapeOperations \subseteq calls
          /\ SubSeq(stdout, 6, 15) = ShapeReport

\* C7 witness: main has returned after printing all 21 lines.
C7_Witness ==
    /\ MainReturned
    /\ Len(stdout) = 21
    /\ "get_area_long" \in calls

====
